---- MODULE Spec2Model ----
(***************************************************************************)
(* Model of the Staxastic signal tracker: the /webhookbuy handler, the     *)
(* per-signal coroutine update_price_periodically with its nested          *)
(* safe_cell_update, the function-attribute registry update_tasks and the  *)
(* lifespan shutdown hook.                                                 *)
(*                                                                         *)
(* Everything runs on one asyncio event loop.  A coroutine gives up the    *)
(* loop only at an await that really suspends (asyncio.sleep); the code    *)
(* between two such awaits is one atomic turn.  time.sleep() and           *)
(* requests.get() block the whole loop.  Each program counter below is     *)
(* either a suspension point (the coroutine sits in asyncio.sleep with a   *)
(* wake-up time) or an "active" point inside a turn; while some coroutine  *)
(* is at an active point nothing else steps.                               *)
(*                                                                         *)
(* Time is counted in tenths of a second.                                  *)
(***************************************************************************)
EXTENDS Integers, Sequences, FiniteSets, TLC

VARIABLES
    now,              \* wall clock, tenths of a second
    tasks,            \* the update_price_periodically coroutines, by creation order
    handlers,         \* the webhook requests, by arrival order
    update_tasks,     \* update_price_periodically.update_tasks : symbol -> task (0 = no entry)
    app_state,        \* app.state.background_tasks / app.state.update_tasks of lifespan
    lifecycle,        \* "running", "exited" (lifespan left), "closed" (event loop torn down)
    rows,             \* column 7 of every row of the sheet, header row first
    cells,            \* values written to columns 8..27: {<<row, col, value>>}
    formats,          \* pct-cell formats applied: {<<row, col, band>>}
    api,              \* the last two calls made to the Sheets backend
    nfetch,           \* successful Bybit fetches so far (selects the price fed back)
    faults,           \* incidents so far (failure bursts, edits by another writer)
    outage,           \* how many more backend calls the current failure burst fails
    budget,           \* the scenario: how many signals arrive and how many failures occur
    external          \* what another writer of the sheet has done: "none", "truncated", "cleared"

vars == <<now, tasks, handlers, update_tasks, app_state, lifecycle, rows, cells,
          formats, api, nfetch, faults, outage, budget, external>>

----------------------------------------------------------------------------
(* Bounds of the model *)

MaxSignals == 2
\* An incident is one failed price fetch or notification, one burst of up to
\* max_retries consecutive failing backend calls, or one edit by another writer.
MaxIncidents == 1
\* Incidents strike while a task is at one of its first FaultHorizons horizons, or earlier.
FaultHorizons == 2
\* Requests arrive within this time of the start (tenths of a second).
ArrivalWindow == 10

\* Either several signals in a healthy environment, up to the shutdown of the
\* server, or one signal and failures.
Scenarios ==
    { [signals |-> MaxSignals, faults |-> 0, shutdown |-> TRUE],
      [signals |-> 1, faults |-> MaxIncidents, shutdown |-> FALSE] }

Symbols == {"BTC", "ETH"}
\* A request arrives together with some event of the loop or half a second after it.
ArrivalDelays == {0, 5}
\* The prices the market-data endpoint returns, in order of the successful fetches.
Feed == <<50000, 51000, 49000>>

\* Inputs of the change computation taken on its own: entry prices, directions,
\* and sampled prices given by their distance from the entry price.
CalcEntries == {1, 3, 7, 400, 2000, 50000, 60000}
CalcDeltas == {-1000, -3, -1, 0, 1, 2, 1000, 2000}
CalcActions == {"buy", "BUY", "sell"}

----------------------------------------------------------------------------
(* Program constants *)

SHEETS_API_DELAY == 11
max_retries == 3
WebhookSleep == 30
FirstPriceCol == 8
\* len(COLUMN_HEADERS)
NumColumns == 27

intervals ==
    << <<"1h", 60 * 60>>, <<"2h", 2 * 60 * 60>>,
       <<"4h", 4 * 60 * 60>>, <<"8h", 8 * 60 * 60>>,
       <<"12h", 12 * 60 * 60>>, <<"1d", 24 * 60 * 60>>,
       <<"3d", 3 * 24 * 60 * 60>>, <<"7d", 7 * 24 * 60 * 60>>,
       <<"14d", 14 * 24 * 60 * 60>>, <<"30d", 30 * 24 * 60 * 60>> >>

NumIntervals == Len(intervals)

----------------------------------------------------------------------------
(* Pure helpers *)

Pow2(n) == IF n = 0 THEN 1 ELSE IF n = 1 THEN 2 ELSE 4
BackoffFlat(attempt) == 10

\* asyncio.sleep(2 ** attempt), in tenths of a second
BackoffDelay(attempt) == 10 * Pow2(attempt)

\* datetime.now(tz).strftime("%Y-%m-%d %H:%M:%S"): the fraction of the second is dropped
Strftime(t) == <<"ts", t \div 10>>

\* isinstance(datetime_str, str): an empty cell reads as None
IsStr(v) == v[1] # "none"
ParsesAnything(v) == TRUE

\* datetime.strptime(datetime_str, "%Y-%m-%d %H:%M:%S") raises ValueError on other text
Parses(v) == v[1] = "ts"

\* moscow_tz.localize(strptime(...)) as an instant, tenths of a second
Strptime(v) == v[2] * 10

\* target_time = entry_time + timedelta(seconds=delay)
TargetTime(entry_time, idx) == entry_time + intervals[idx][2] * 10

SleepDurationSwapped(target_time, t) == t - target_time

\* sleep_duration = (target_time - datetime.now(moscow_tz)).total_seconds()
SleepDuration(target_time, t) == target_time - t

\* interval_idx = intervals.index((name, delay)); price_col = 8 + interval_idx * 2
PriceCol(idx) == FirstPriceCol + (idx - 1) * 2
PctColOverPrice(idx) == PriceCol(idx)

PctCol(idx) == PriceCol(idx) + 1

\* n / d rounded to the nearest integer (d > 0)
RoundDiv(n, d) ==
    LET q == n \div d
        r == n % d
    IN  IF 2 * r >= d THEN q + 1 ELSE q
EntryPriceAsGiven(p) == [num |-> p, den |-> 1]

\* entry_price as the coroutine uses it: 0 is replaced by 0.000001.
\* A price is [num, den], standing for num / den.
EntryPrice(p) == IF p = 0 THEN [num |-> 1, den |-> 1000000] ELSE [num |-> p, den |-> 1]

\* current_price - entry_price: exact for a whole entry price; against the
\* substituted 0.000001 only its sign is kept (whole prices: positive unless 0).
Diff(cur, entry) ==
    IF entry.den = 1 THEN cur - entry.num ELSE IF cur > 0 THEN 1 ELSE -1

\* action.lower()
Lower(action) ==
    IF action \in {"buy", "Buy", "BUY"} THEN "buy"
    ELSE IF action \in {"sell", "Sell", "SELL"} THEN "sell" ELSE action

ChangeNumLongOnly(cur, entry, action) == Diff(cur, entry)

\* The numerator of change_pct (its denominator, entry_price, is positive).
ChangeNum(cur, entry, action) ==
    IF Lower(action) = "buy" THEN Diff(cur, entry) ELSE -Diff(cur, entry)

\* change_decimal = round(change_pct / 100, 6), in millionths.  With the
\* substituted 0.000001 entry the quotient is beyond the modelled range and is
\* kept as "sat" with its sign.
ChangeDecimal(cur, entry, action) ==
    LET n == ChangeNum(cur, entry, action)
    IN  IF entry.den = 1
        THEN [sat |-> FALSE, micro |-> RoundDiv(n * 1000000, entry.num)]
        ELSE [sat |-> TRUE, micro |-> IF n >= 0 THEN 1 ELSE -1]
BandStrict(cur, entry, action) == IF ChangeNum(cur, entry, action) > 0 THEN "green" ELSE "red"

\* backgroundColor: red 0.5 / green 1 if change_pct >= 0 else red 1 / green 0.5
Band(cur, entry, action) == IF ChangeNum(cur, entry, action) >= 0 THEN "green" ELSE "red"

Put(set, row, col, v) == {c \in set : ~(c[1] = row /\ c[2] = col)} \cup {<<row, col, v>>}

HasCell(set, row, col) == \E c \in set : c[1] = row /\ c[2] = col

Min(S) == CHOOSE x \in S : \A y \in S : x <= y

----------------------------------------------------------------------------
(* State *)

Header == <<"text", 0>>     \* COLUMN_HEADERS[6], "Дата и время сигнала": a string, not a timestamp
Empty == <<"none", 0>>      \* an empty cell: gspread returns None

ActivePcs == {"start", "loop", "fetch", "call"}
SuspendedPcs == {"read_sleep", "wait", "fmt_sleep", "upd_sleep", "backoff"}
HActivePcsYielding == {"market", "notify", "batchfmt"}
\* The points of webhook that lie inside a turn: the handler is not suspended there.
HActivePcs == {"market", "notify", "getall", "batchfmt"}
HSuspendedPcs == {"sleep3"}

TaskIds == 1..Len(tasks)
HandlerIds == 1..Len(handlers)

\* Some coroutine is in the middle of a turn: the loop is not free.
Busy ==
    \/ \E i \in TaskIds : tasks[i].pc \in ActivePcs
    \/ \E h \in HandlerIds : handlers[h].pc \in HActivePcs

\* A coroutine suspended in asyncio.sleep resumes once its timer is due and the loop is free.
Ready(wake) == wake <= now /\ ~Busy

\* task.cancel() was called and the CancelledError is not delivered yet.
CancelPending == \E i \in TaskIds : tasks[i].cancelReq /\ tasks[i].pc \in SuspendedPcs

Timers ==
    {tasks[i].wake : i \in {j \in TaskIds : tasks[j].pc \in SuspendedPcs}}
    \cup {handlers[h].wake : h \in {g \in HandlerIds : handlers[g].pc \in HSuspendedPcs}}

\* create_task(update_price_periodically(sheet, row_index, symbol, float(current_price), "buy"))
NewTask(symbol, row_index, price) ==
    [ symbol |-> symbol, row_index |-> row_index, entry_price |-> EntryPrice(price),
      action |-> "buy", pc |-> "start", idx |-> 0, cell |-> "none", stage |-> "none",
      attempt |-> 0, wake |-> 0, datetime_str |-> Empty, entry_time |-> 0,
      current_price |-> 0, cancelReq |-> FALSE, outcome |-> "none",
      \* history of the run, read by the properties only
      given |-> price,        \* entry_price as the webhook passed it
      samples |-> <<>>,       \* every get_bybit_price call: <<idx, time, succeeded>>
      closed |-> {},          \* horizons whose loop iteration has ended
      rets |-> {},            \* safe_cell_update results: <<idx, cell, result, attempts>>
      fmtFail |-> {},         \* horizons with a failed sheet.format call
      updFail |-> {},         \* <<idx, cell>> with a failed sheet.update call
      failed |-> {},          \* horizons with a failed fetch or a write given up
      tries |-> 0,            \* attempts begun by the current safe_cell_update
      backoffFrom |-> 0,      \* when the current backoff sleep began
      wrote |-> {},           \* calls that went through: <<idx, cell, stage, row, col>>
      writeIdx |-> 0,         \* horizon of the latest format/update call
      sleptFrom |-> 0,        \* when the current horizon wait began
      cancelWait |-> 0,       \* horizon being waited for when cancel() was called
      cancelFetches |-> 0,    \* Len(samples) at that moment
      nf |-> "none",          \* where "exceeds grid limits" was first reported
      afterNF |-> 0,          \* backend calls and fetches made after that report
      transient |-> "none" ]  \* where another backend error was first reported

Init ==
    /\ now = 0
    /\ tasks = <<>>
    /\ handlers = <<>>
    /\ update_tasks = [s \in Symbols |-> 0]
    /\ app_state = [background_tasks |-> {}, update_tasks |-> {}]
    /\ lifecycle = "running"
    /\ rows = <<Header>>
    /\ cells = {}
    /\ formats = {}
    \* init_google_sheets ends each of its calls with time.sleep(SHEETS_API_DELAY)
    /\ api = [prev |-> [at |-> -2 * SHEETS_API_DELAY, by |-> <<"init", 0>>],
              last |-> [at |-> -SHEETS_API_DELAY, by |-> <<"init", 0>>]]
    /\ nfetch = 0
    /\ faults = 0
    /\ outage = 0
    /\ budget \in Scenarios
    /\ external = "none"

\* One more call reaches the Sheets backend, now.
ApiCall(by) == api' = [prev |-> api.last, last |-> [at |-> now, by |-> by]]

\* One more incident fits the scenario.
CanFail == faults < budget.faults
TaskCanFail(t) == CanFail /\ t.idx <= FaultHorizons

\* A backend call on an existing row: it succeeds (ok), or it fails, either as
\* part of the current burst or as the first call of a new one.
Backend(ok, mayFail) ==
    IF outage > 0
    THEN ~ok /\ outage' = outage - 1 /\ UNCHANGED faults
    ELSE \/ ok /\ UNCHANGED <<faults, outage>>
         \/ /\ ~ok
            /\ mayFail
            /\ faults' = faults + 1
            /\ \E n \in 1..max_retries : outage' = n - 1

\* The row is beyond the grid: gspread raises APIError "exceeds grid limits".
RowMissing(row) == row > Len(rows)

\* get_bybit_price returns the next price of the feed
NextPrice == Feed[(nfetch % Len(Feed)) + 1]

----------------------------------------------------------------------------
(* update_price_periodically *)

ExceptAnything(exc) == TRUE

\* Which exceptions an "except Exception" clause catches: CancelledError derives
\* from BaseException and passes through.
ExceptException(exc) == exc # "CancelledError"
KeepEntry(registry, symbol) == registry

\* finally: update_price_periodically.update_tasks.pop(symbol, None)
Pop(registry, symbol) == [registry EXCEPT ![symbol] = 0]

\* The coroutine ends (return, or an exception reaching the outer handlers).
Finished(t, why) == [t EXCEPT !.pc = "done", !.outcome = why]

StayOnIteration(t) == [t EXCEPT !.pc = "loop", !.closed = t.closed \cup {t.idx}]

\* "continue", or the end of the loop body: on to the next pair of intervals.
NextIteration(t) ==
    [t EXCEPT !.idx = t.idx + 1, !.pc = "loop", !.closed = t.closed \cup {t.idx}]

FetchErrorEscapes(t) == Finished(t, "critical")

\* The inner "except Exception ... continue" around one horizon (lines 178-180).
AfterFetchError(t) ==
    IF ExceptException("HTTPException") THEN NextIteration(t) ELSE Finished(t, "critical")

\* safe_cell_update has returned `ok` to the loop body.
AfterReturn(t, ok) ==
    LET r == [t EXCEPT !.rets = t.rets \cup {<<t.idx, t.cell, ok, t.tries>>},
                       !.failed = IF ok THEN t.failed ELSE t.failed \cup {t.idx}]
    IN  IF t.cell = "pct"
        THEN [r EXCEPT !.pc = "call", !.cell = "price", !.stage = "update", !.attempt = 0,
                       !.tries = 1]
        ELSE NextIteration(r)

\* The except branch of safe_cell_update: give up after the last attempt, else back off.
FailedAttempt(t) ==
    IF t.attempt = max_retries - 1
    THEN AfterReturn(t, FALSE)
    ELSE [t EXCEPT !.pc = "backoff", !.wake = now + BackoffDelay(t.attempt),
                   !.backoffFrom = now]

\* History: an error of kind `kind` is reported at `where` ("read" or "write").
Reported(t, missing, where) ==
    IF missing
    THEN [t EXCEPT !.nf = IF t.nf = "none" THEN where ELSE t.nf]
    ELSE [t EXCEPT !.transient = IF t.transient = "none" THEN where ELSE t.transient]

\* History: one more backend call or price fetch after a row-not-found report.
Counted(t) == IF t.nf = "none" \/ t.afterNF = 1 THEN t ELSE [t EXCEPT !.afterNF = 1]

\* The task record changes; a coroutine that ends runs its finally clause.
SetTask(i, t) ==
    /\ tasks' = [tasks EXCEPT ![i] = t]
    /\ update_tasks' = IF t.pc = "done" THEN Pop(update_tasks, t.symbol) ELSE update_tasks

\* First turn: datetime_str = sheet.cell(row_index, 7).value (lines 106-115).
Start(i) ==
    /\ tasks[i].pc = "start"
    /\ ApiCall(<<"task", i>>)
    /\ LET t == tasks[i] IN
       IF RowMissing(t.row_index)
       THEN /\ SetTask(i, Finished(Reported(t, TRUE, "read"), "row_missing"))
            /\ UNCHANGED <<faults, outage>>
       ELSE \E ok \in BOOLEAN :
               /\ Backend(ok, TaskCanFail(t))
               /\ IF ok
                  THEN SetTask(i, [t EXCEPT !.datetime_str = rows[t.row_index],
                                            !.pc = "read_sleep",
                                            !.wake = now + SHEETS_API_DELAY])
                  ELSE SetTask(i, Finished(Reported(t, FALSE, "read"), "critical"))
    /\ UNCHANGED <<now, handlers, app_state, lifecycle, rows, cells, formats, nfetch, external,
                   budget>>

\* After the read: type check and strptime (lines 117-120), then into the loop.
AfterRead(i) ==
    /\ tasks[i].pc = "read_sleep"
    /\ ~tasks[i].cancelReq
    /\ Ready(tasks[i].wake)
    /\ LET t == tasks[i] IN
       IF IsStr(t.datetime_str) /\ Parses(t.datetime_str)
       THEN SetTask(i, [t EXCEPT !.entry_time = Strptime(t.datetime_str),
                                 !.idx = 1, !.pc = "loop"])
       ELSE SetTask(i, Finished(t, "critical"))
    /\ UNCHANGED <<now, handlers, app_state, lifecycle, rows, cells, formats, api, nfetch,
                   faults, outage, external, budget>>

\* Top of "for name, delay in intervals" (lines 130-137), and the end of the loop.
Loop(i) ==
    /\ tasks[i].pc = "loop"
    /\ LET t == tasks[i] IN
       IF t.idx > NumIntervals
       THEN SetTask(i, Finished(t, "completed"))
       ELSE LET sleep_duration == SleepDuration(TargetTime(t.entry_time, t.idx), now)
            IN  IF sleep_duration > 0
                THEN SetTask(i, [t EXCEPT !.pc = "wait", !.wake = now + sleep_duration,
                                          !.sleptFrom = now])
                ELSE SetTask(i, [t EXCEPT !.pc = "fetch"])
    /\ UNCHANGED <<now, handlers, app_state, lifecycle, rows, cells, formats, api, nfetch,
                   faults, outage, external, budget>>

\* asyncio.sleep(sleep_duration) is over (line 137).
Wake(i) ==
    /\ tasks[i].pc = "wait"
    /\ ~tasks[i].cancelReq
    /\ Ready(tasks[i].wake)
    /\ SetTask(i, [tasks[i] EXCEPT !.pc = "fetch"])
    /\ UNCHANGED <<now, handlers, app_state, lifecycle, rows, cells, formats, api, nfetch,
                   faults, outage, external, budget>>

\* current_price = await get_bybit_price(symbol), then the computation (lines 139-153).
Fetch(i) ==
    /\ tasks[i].pc = "fetch"
    /\ LET t == Counted(tasks[i]) IN
       \/ /\ TaskCanFail(t)
          /\ faults' = faults + 1
          /\ SetTask(i, AfterFetchError(
                 [t EXCEPT !.samples = Append(t.samples, <<t.idx, now, FALSE>>),
                           !.failed = t.failed \cup {t.idx}]))
          /\ UNCHANGED nfetch
       \/ /\ nfetch' = (nfetch + 1) % Len(Feed)
          /\ LET s == [t EXCEPT !.samples = Append(t.samples, <<t.idx, now, TRUE>>),
                                !.current_price = NextPrice]
             IN  IF s.entry_price.num = 0
                 THEN SetTask(i, NextIteration(s))
                 ELSE SetTask(i, [s EXCEPT !.pc = "call", !.cell = "pct",
                                           !.stage = "format", !.attempt = 0,
                                           !.tries = 1])
          /\ UNCHANGED faults
    /\ UNCHANGED <<now, handlers, app_state, lifecycle, rows, cells, formats, api, outage,
                   external, budget>>

\* One attempt of safe_cell_update reaches sheet.format or sheet.update (lines 91-104).
Call(i) ==
    /\ tasks[i].pc = "call"
    /\ ApiCall(<<"task", i>>)
    /\ LET t0 == Counted(tasks[i])
           t == [t0 EXCEPT !.writeIdx = t0.idx]
           col == IF t.cell = "pct" THEN PctCol(t.idx) ELSE PriceCol(t.idx)
           val == IF t.cell = "pct"
                  THEN ChangeDecimal(t.current_price, t.entry_price, t.action)
                  ELSE [sat |-> FALSE, micro |-> t.current_price]
           failed == IF t.stage = "format"
                     THEN [t EXCEPT !.fmtFail = t.fmtFail \cup {t.idx}]
                     ELSE [t EXCEPT !.updFail = t.updFail \cup {<<t.idx, t.cell>>}]
           done == [t EXCEPT !.wrote = t.wrote \cup
                                 {<<t.idx, t.cell, t.stage, t.row_index, col>>}]
       IN
       IF RowMissing(t.row_index)
       THEN /\ SetTask(i, FailedAttempt(Reported(failed, TRUE, "write")))
            /\ UNCHANGED <<faults, outage, cells, formats>>
       ELSE \E ok \in BOOLEAN :
               /\ Backend(ok, TaskCanFail(t))
               /\ CASE ~ok ->
                         /\ SetTask(i, FailedAttempt(Reported(failed, FALSE, "write")))
                         /\ UNCHANGED <<cells, formats>>
                    [] ok /\ t.stage = "format" ->
                         /\ formats' = Put(formats, t.row_index, col,
                                           Band(t.current_price, t.entry_price, t.action))
                         /\ SetTask(i, [done EXCEPT !.pc = "fmt_sleep",
                                                    !.wake = now + SHEETS_API_DELAY])
                         /\ UNCHANGED cells
                    [] OTHER ->
                         /\ cells' = Put(cells, t.row_index, col, val)
                         /\ SetTask(i, [done EXCEPT !.pc = "upd_sleep",
                                                    !.wake = now + SHEETS_API_DELAY])
                         /\ UNCHANGED formats
    /\ UNCHANGED <<now, handlers, app_state, lifecycle, rows, nfetch, external, budget>>

\* asyncio.sleep(SHEETS_API_DELAY) after sheet.format is over (line 94): on to sheet.update.
AfterFormatSleep(i) ==
    /\ tasks[i].pc = "fmt_sleep"
    /\ ~tasks[i].cancelReq
    /\ Ready(tasks[i].wake)
    /\ SetTask(i, [tasks[i] EXCEPT !.pc = "call", !.stage = "update"])
    /\ UNCHANGED <<now, handlers, app_state, lifecycle, rows, cells, formats, api, nfetch,
                   faults, outage, external, budget>>

\* asyncio.sleep(SHEETS_API_DELAY) after sheet.update is over (lines 97-98): return True.
AfterUpdateSleep(i) ==
    /\ tasks[i].pc = "upd_sleep"
    /\ ~tasks[i].cancelReq
    /\ Ready(tasks[i].wake)
    /\ SetTask(i, AfterReturn(tasks[i], TRUE))
    /\ UNCHANGED <<now, handlers, app_state, lifecycle, rows, cells, formats, api, nfetch,
                   faults, outage, external, budget>>

\* asyncio.sleep(2 ** attempt) is over (line 104): the next attempt.
AfterBackoff(i) ==
    /\ tasks[i].pc = "backoff"
    /\ ~tasks[i].cancelReq
    /\ Ready(tasks[i].wake)
    /\ SetTask(i, [tasks[i] EXCEPT !.pc = "call", !.attempt = tasks[i].attempt + 1,
                                   !.tries = tasks[i].tries + 1,
                                   !.stage = IF tasks[i].cell = "pct" THEN "format" ELSE "update"])
    /\ UNCHANGED <<now, handlers, app_state, lifecycle, rows, cells, formats, api, nfetch,
                   faults, outage, external, budget>>

\* CancelledError is raised at the await the coroutine is suspended in.  It passes
\* every "except Exception" and only the finally clause runs.  (Were it caught, the
\* handler enclosing the await would treat it like any other failure.)
Cancelled(i) ==
    /\ tasks[i].pc \in SuspendedPcs
    /\ tasks[i].cancelReq
    /\ ~Busy
    /\ LET t == [tasks[i] EXCEPT !.cancelReq = FALSE] IN
       IF ~ExceptException("CancelledError")
       THEN SetTask(i, Finished([t EXCEPT !.cancelReq = TRUE], "cancelled"))
       ELSE CASE t.pc = "read_sleep" -> SetTask(i, Finished(t, "critical"))
              [] t.pc \in {"wait", "backoff"} -> SetTask(i, NextIteration(t))
              [] OTHER -> SetTask(i, FailedAttempt(t))
    /\ UNCHANGED <<now, handlers, app_state, lifecycle, rows, cells, formats, api, nfetch,
                   faults, outage, external, budget>>

----------------------------------------------------------------------------
(* webhook *)

SetHandler(h, r) == handlers' = [handlers EXCEPT ![h] = r]

\* The request failed: HTTPException 500, no task is created.
Failed(r) == [r EXCEPT !.pc = "failed"]

\* A POST /webhookbuy arrives: request.json(), then await asyncio.sleep(3) (lines 23-28).
Receive(symbol, d) ==
    /\ lifecycle = "running"
    /\ Len(handlers) < budget.signals
    \* the program treats every symbol alike: the first request is taken to be for BTC
    /\ Len(handlers) = 0 => symbol = "BTC"
    /\ now + d < ArrivalWindow
    /\ ~Busy
    /\ d > 0 => ~CancelPending /\ \A w \in Timers : now + d < w
    /\ now' = now + d
    /\ handlers' = Append(handlers, [symbol |-> symbol, pc |-> "sleep3",
                                     wake |-> now + d + WebhookSleep,
                                     price |-> 0, row_index |-> 0,
                                     \* history, read by the properties only
                                     appended |-> 0,   \* the row its append_row added
                                     task |-> 0])      \* the task it created
    /\ UNCHANGED <<tasks, update_tasks, app_state, lifecycle, rows, cells, formats, api,
                   nfetch, faults, outage, external, budget>>

\* open_by_key(...).sheet1 and the blocking sleep, up to cmc.get_market_data (lines 30-38).
\* The cmc service is not among the sources; like get_bybit_price, which awaits
\* nothing, its coroutine is taken to return without yielding the loop, so the
\* handler runs from here to its end in one turn.
Open(h) ==
    /\ handlers[h].pc = "sleep3"
    /\ Ready(handlers[h].wake)
    /\ now' = now + SHEETS_API_DELAY
    /\ SetHandler(h, [handlers[h] EXCEPT !.pc = "market"])
    /\ UNCHANGED <<tasks, update_tasks, app_state, lifecycle, rows, cells, formats, api,
                   nfetch, faults, outage, external, budget>>

\* current_price = await get_bybit_price(symbol), 0.0 when it raises (lines 43-46).
Price(h) ==
    /\ handlers[h].pc = "market"
    /\ \/ /\ CanFail
          /\ faults' = faults + 1
          /\ SetHandler(h, [handlers[h] EXCEPT !.pc = "notify", !.price = 0])
          /\ UNCHANGED nfetch
       \/ /\ nfetch' = (nfetch + 1) % Len(Feed)
          /\ SetHandler(h, [handlers[h] EXCEPT !.pc = "notify", !.price = NextPrice])
          /\ UNCHANGED faults
    /\ UNCHANGED <<now, tasks, update_tasks, app_state, lifecycle, rows, cells, formats, api,
                   outage, external, budget>>

\* TelegramBot.send_message, then sheet.append_row and the blocking sleep (lines 61-80).
AppendRow(h) ==
    /\ handlers[h].pc = "notify"
    /\ \/ /\ CanFail          \* the notification fails: HTTPException 500
          /\ faults' = faults + 1
          /\ SetHandler(h, Failed(handlers[h]))
          /\ UNCHANGED <<now, rows, api, outage>>
       \/ /\ ApiCall(<<"hook", h>>)
          /\ \E ok \in BOOLEAN :
                /\ Backend(ok, CanFail)
                /\ IF ok
                   THEN /\ rows' = Append(rows, Strftime(now))
                        /\ now' = now + SHEETS_API_DELAY
                        /\ SetHandler(h, [handlers[h] EXCEPT !.pc = "getall",
                                                             !.appended = Len(rows) + 1])
                   ELSE /\ SetHandler(h, Failed(handlers[h]))
                        /\ UNCHANGED <<now, rows>>
    /\ UNCHANGED <<tasks, update_tasks, app_state, lifecycle, cells, formats, nfetch, external,
                   budget>>

\* row_index = len(sheet.get_all_values()) and the blocking sleep (lines 83-84).
GetAllValues(h) ==
    /\ handlers[h].pc = "getall"
    /\ ApiCall(<<"hook", h>>)
    /\ \E ok \in BOOLEAN :
          /\ Backend(ok, CanFail)
          /\ IF ok
             THEN /\ now' = now + SHEETS_API_DELAY
                  /\ SetHandler(h, [handlers[h] EXCEPT !.pc = "batchfmt",
                                                       !.row_index = Len(rows)])
             ELSE /\ SetHandler(h, Failed(handlers[h]))
                  /\ UNCHANGED now
    /\ UNCHANGED <<tasks, update_tasks, app_state, lifecycle, rows, cells, formats, nfetch,
                   external, budget>>

\* sheet.batch_format, the blocking sleep, create_task and the registration (lines 115-124).
Spawn(h) ==
    /\ handlers[h].pc = "batchfmt"
    /\ ApiCall(<<"hook", h>>)
    /\ \E ok \in BOOLEAN :
          /\ Backend(ok, CanFail)
          /\ IF ok
             THEN /\ now' = now + SHEETS_API_DELAY
                  /\ tasks' = Append(tasks, NewTask(handlers[h].symbol, handlers[h].row_index,
                                                    handlers[h].price))
                  /\ update_tasks' = [update_tasks EXCEPT ![handlers[h].symbol] = Len(tasks) + 1]
                  /\ SetHandler(h, [handlers[h] EXCEPT !.pc = "done",
                                                       !.task = Len(tasks) + 1])
             ELSE /\ SetHandler(h, Failed(handlers[h]))
                  /\ UNCHANGED <<now, tasks, update_tasks>>
    /\ UNCHANGED <<app_state, lifecycle, rows, cells, formats, nfetch, external, budget>>

----------------------------------------------------------------------------
(* lifespan and the event loop *)

\* task.cancel() on a task that has not ended
Cancel(t) ==
    IF t.pc = "done" \/ t.cancelReq THEN t
    ELSE [t EXCEPT !.cancelReq = TRUE,
                   !.cancelWait = IF t.pc = "wait" THEN t.idx ELSE 0,
                   !.cancelFetches = Len(t.samples)]

\* The tasks the shutdown code of lifespan cancels (lines 118-121).
ShutdownTargets == app_state.background_tasks \cup app_state.update_tasks

\* The server stops: the code after "yield" in lifespan runs.
LifespanExit ==
    /\ lifecycle = "running"
    /\ budget.shutdown
    /\ ~Busy
    /\ \A h \in HandlerIds : handlers[h].pc \in {"done", "failed"}
    /\ lifecycle' = "exited"
    /\ tasks' = [i \in TaskIds |-> IF i \in ShutdownTargets THEN Cancel(tasks[i]) ELSE tasks[i]]
    /\ UNCHANGED <<now, handlers, update_tasks, app_state, rows, cells, formats, api, nfetch,
                   faults, outage, external, budget>>

\* uvicorn.run returns: the event loop is closed, which cancels every task still pending.
LoopTeardown ==
    /\ lifecycle = "exited"
    /\ ~Busy
    /\ lifecycle' = "closed"
    /\ tasks' = [i \in TaskIds |-> Cancel(tasks[i])]
    /\ UNCHANGED <<now, handlers, update_tasks, app_state, rows, cells, formats, api, nfetch,
                   faults, outage, external, budget>>

\* Nothing is due: the loop sleeps until its next timer.
Advance ==
    /\ lifecycle = "running"
    /\ ~Busy
    /\ ~CancelPending
    /\ Timers # {}
    /\ \A w \in Timers : w > now
    /\ now' = Min(Timers)
    /\ UNCHANGED <<tasks, handlers, update_tasks, app_state, lifecycle, rows, cells, formats,
                   api, nfetch, faults, outage, external, budget>>

----------------------------------------------------------------------------
(* Another writer of the spreadsheet *)

\* The data rows are deleted: the grid shrinks to the header row.
Truncate ==
    /\ external = "none"
    /\ CanFail
    /\ \A i \in TaskIds : tasks[i].idx <= FaultHorizons
    /\ Len(rows) > 1
    /\ faults' = faults + 1
    /\ external' = "truncated"
    /\ rows' = <<Header>>
    /\ cells' = {}
    /\ formats' = {}
    /\ UNCHANGED <<now, tasks, handlers, update_tasks, app_state, lifecycle, api, nfetch,
                   outage, budget>>

\* The timestamp cell of a row just appended is cleared before its task reads it.
ClearStamp ==
    /\ external = "none"
    /\ CanFail
    /\ faults' = faults + 1
    /\ \E h \in HandlerIds :
          /\ handlers[h].pc = "batchfmt"
          /\ handlers[h].row_index \in 2..Len(rows)
          /\ rows' = [rows EXCEPT ![handlers[h].row_index] = Empty]
    /\ external' = "cleared"
    /\ UNCHANGED <<now, tasks, handlers, update_tasks, app_state, lifecycle, cells, formats,
                   api, nfetch, outage, budget>>

----------------------------------------------------------------------------

TaskStep(i) ==
    \/ Start(i)
    \/ AfterRead(i)
    \/ Loop(i)
    \/ Wake(i)
    \/ Fetch(i)
    \/ Call(i)
    \/ AfterFormatSleep(i)
    \/ AfterUpdateSleep(i)
    \/ AfterBackoff(i)
    \/ Cancelled(i)

HandlerStep(h) ==
    \/ Open(h)
    \/ Price(h)
    \/ AppendRow(h)
    \/ GetAllValues(h)
    \/ Spawn(h)

Next ==
    \/ \E i \in TaskIds : TaskStep(i)
    \/ \E h \in HandlerIds : HandlerStep(h)
    \/ \E symbol \in Symbols, d \in ArrivalDelays : Receive(symbol, d)
    \/ LifespanExit
    \/ LoopTeardown
    \/ Advance
    \/ Truncate
    \/ ClearStamp

Spec == Init /\ [][Next]_vars

\* A step of the program itself, as opposed to its environment.
Program ==
    \/ \E i \in TaskIds : TaskStep(i)
    \/ \E h \in HandlerIds : HandlerStep(h)
    \/ Advance
    \/ LoopTeardown

\* What the scheduling guarantees: the event loop runs whatever callback is
\* ready, every blocking call returns, timers fire, and a server that has left
\* lifespan goes on to close its loop.  No step repeats a state, so this is as
\* strong as fairness for each coroutine on its own.
Fairness == WF_vars(Program)

FairSpec == Spec /\ Fairness

----------------------------------------------------------------------------
(* The change computation on its own (lines 144-166), for either direction *)

CalcInit ==
    /\ now = 0
    /\ tasks = <<>>
    /\ handlers = <<>>
    /\ update_tasks = [s \in Symbols |-> 0]
    /\ app_state = [background_tasks |-> {}, update_tasks |-> {}]
    /\ lifecycle = "running"
    /\ rows = <<Header, Strftime(0)>>
    /\ cells = {}
    /\ formats = {}
    /\ api = [prev |-> [at |-> -2 * SHEETS_API_DELAY, by |-> <<"init", 0>>],
              last |-> [at |-> -SHEETS_API_DELAY, by |-> <<"init", 0>>]]
    /\ nfetch = 0
    /\ faults = 0
    /\ outage = 0
    /\ budget = [signals |-> 0, faults |-> 0, shutdown |-> FALSE]
    /\ external = "none"

\* One horizon of a task with the given entry price and direction, for which
\* get_bybit_price returned current_price: change_decimal and the background
\* colour, as they reach the pct cell of row 2.
Compute(entry_price, action, current_price) ==
    /\ tasks = <<>>
    /\ LET t == [NewTask("BTC", 2, entry_price) EXCEPT
                     !.action = action, !.current_price = current_price,
                     !.idx = 1, !.pc = "done", !.outcome = "completed"]
       IN  /\ tasks' = <<t>>
           /\ cells' = Put(cells, t.row_index, PctCol(t.idx),
                           ChangeDecimal(t.current_price, t.entry_price, t.action))
           /\ formats' = Put(formats, t.row_index, PctCol(t.idx),
                             Band(t.current_price, t.entry_price, t.action))
    /\ UNCHANGED <<now, handlers, update_tasks, app_state, lifecycle, rows, api, nfetch,
                   faults, outage, budget, external>>

CalcNext ==
    \E entry_price \in CalcEntries, action \in CalcActions, d \in CalcDeltas :
        entry_price + d >= 0 /\ Compute(entry_price, action, entry_price + d)

CalcSpec == CalcInit /\ [][CalcNext]_vars

----------------------------------------------------------------------------
(* Readings of a task's history *)

Running(i) == tasks[i].pc # "done"

SampleIdx(t) == [k \in 1..Len(t.samples) |-> t.samples[k][1]]
Attempted(t, h) == \E n \in 1..Len(t.samples) : t.samples[n][1] = h
FetchFailed(t, h) == \E n \in 1..Len(t.samples) : t.samples[n][1] = h /\ ~t.samples[n][3]
FetchOk(t, h) == Attempted(t, h) /\ ~FetchFailed(t, h)
\* horizons for which safe_cell_update gave up after its last attempt
WriteFailed(t, h) == \E r \in t.rets : r[1] = h /\ ~r[3]
Recorded(t, h) ==
    /\ HasCell(cells, t.row_index, PctCol(h))
    /\ HasCell(cells, t.row_index, PriceCol(h))

----------------------------------------------------------------------------
(* C1: when a second signal for a symbol is accepted while the instance of the
   first is still running, afterwards exactly one instance for that symbol is
   active (the old one is cancelled) and the registry entry of the symbol refers
   to the new instance. *)
C1_OneActivePerSymbol ==
    \A i, j \in TaskIds :
        (i < j /\ tasks[i].symbol = tasks[j].symbol /\ Running(j)) =>
            /\ ~Running(i) \/ tasks[i].cancelReq
            /\ (\A k \in TaskIds : k > j => tasks[k].symbol # tasks[j].symbol)
                   => update_tasks[tasks[j].symbol] = j

(* C2: any two consecutive calls to the persistence backend, over all instances
   and webhook handlers together, are at least SHEETS_API_DELAY apart. *)
C2_GlobalSpacing == api.last.at - api.prev.at >= SHEETS_API_DELAY

(* C3: once lifespan has run its shutdown code, cancellation has been requested
   for every instance a webhook started that has not terminated. *)
C3_ShutdownCancelsTracked ==
    lifecycle # "running" => \A i \in TaskIds : Running(i) => tasks[i].cancelReq

(* C4: an instance cancelled while suspended in the wait for horizon k makes no
   backend write for horizon k or later and no further price fetch; the only
   step left to it is the delivery of the cancellation, which ends it and leaves
   no registry entry referring to it. *)
C4_CancelledInWait ==
    \A i \in TaskIds :
        LET t == tasks[i] IN
        t.cancelWait > 0 =>
            /\ t.writeIdx < t.cancelWait
            /\ Len(t.samples) = t.cancelFetches
            /\ t.pc \in {"wait", "done"}
            /\ t.pc = "wait" => ENABLED Cancelled(i)
            /\ t.pc = "done" => t.outcome = "cancelled" /\ update_tasks[t.symbol] # i

C4_Witness ==
    \E i \in TaskIds :
        /\ tasks[i].cancelWait >= 2
        /\ tasks[i].pc = "done"
        /\ tasks[i].writeIdx = tasks[i].cancelWait - 1

(* C5: once the backend has reported row-not-found to an instance, at the first
   read or at a write, the instance makes no further backend call and no further
   price fetch, and it ends with its registry entry removed. *)
C5_RowNotFoundTerminates ==
    \A i \in TaskIds :
        tasks[i].nf # "none" =>
            /\ tasks[i].afterNF = 0
            /\ tasks[i].pc = "done" => update_tasks[tasks[i].symbol] # i

(* C6: in an uncancelled instance a failed price fetch, or a value write that
   fails after its retries, stays within its horizon k: the instance does not
   end because of it, and every later horizon is still waited for and fetched,
   and is recorded when its own fetch and writes succeed. *)
C6_FailureConfined ==
    \A i \in TaskIds :
        LET t == tasks[i]
            After(h) == \E k \in t.failed : k < h
        IN  (t.failed # {} /\ ~t.cancelReq) =>
                /\ \A k \in t.failed : FetchFailed(t, k) \/ WriteFailed(t, k)
                /\ t.pc = "done" => t.outcome = "completed"
                /\ \A n \in 1..Len(t.samples) :
                      After(t.samples[n][1]) =>
                          t.samples[n][2] >= t.entry_time + intervals[t.samples[n][1]][2] * 10
                /\ \A h \in 1..NumIntervals :
                      After(h) =>
                          /\ t.outcome = "completed" => h \in t.closed
                          /\ h \in t.closed => Attempted(t, h)
                          /\ ( /\ h \in t.closed
                               /\ FetchOk(t, h)
                               /\ ~WriteFailed(t, h)
                               /\ external = "none" ) => Recorded(t, h)

C6_Witness ==
    \E i \in TaskIds :
        LET t == tasks[i] IN
        /\ t.outcome = "completed"
        /\ FetchFailed(t, 1)
        /\ \A h \in 2..NumIntervals : Recorded(t, h)

(* C7: for a horizon whose price fetch succeeded and whose value-update calls
   did not fail, both the change and the sampled price are written, whatever
   happened to the format call. *)
C7_FormatFailureKeepsValues ==
    \A i \in TaskIds :
        LET t == tasks[i] IN
        \A h \in t.closed :
            ( /\ FetchOk(t, h)
              /\ \A c \in {"pct", "price"} : <<h, c>> \notin t.updFail
              /\ external = "none" ) => Recorded(t, h)

(* C8: a transient backend error (a rate-limit rejection) on any backend call of
   an instance, the first read included, never ends the instance: it goes on to
   process its horizons. *)
C8_TransientNeverTerminates ==
    \A i \in TaskIds :
        LET t == tasks[i] IN
        (t.transient # "none" /\ t.pc = "done" /\ ~t.cancelReq /\ t.nf = "none")
            => t.outcome = "completed"

(* C9: within one instance the horizons are sampled in ascending order of
   offset, none twice, and the fetch for a horizon starts only after the fetch
   and every write attempt of the horizons before it have ended. *)
C9_SequentialAscending ==
    /\ \A a \in 1..(NumIntervals - 1) : intervals[a][2] < intervals[a + 1][2]
    /\ \A i \in TaskIds :
          LET t == tasks[i]
              n == Len(t.samples)
          IN  /\ \A a \in 1..(n - 1) :
                    /\ t.samples[a][1] < t.samples[a + 1][1]
                    /\ t.samples[a][1] \in t.closed
              /\ t.pc = "fetch" => \A h \in 1..NumIntervals : Attempted(t, h) => h \in t.closed
              /\ t.pc \in {"call", "fmt_sleep", "upd_sleep", "backoff"} =>
                    /\ n > 0
                    /\ t.samples[n] = <<t.idx, t.samples[n][2], TRUE>>
                    /\ t.idx \notin t.closed
              /\ t.writeIdx > 0 => FetchOk(t, t.writeIdx)

C9_Witness ==
    \E i \in TaskIds :
        /\ tasks[i].outcome = "completed"
        /\ SampleIdx(tasks[i]) = [k \in 1..NumIntervals |-> k]

(* C10: the price for horizon h is never sampled before entryTime + offset(h),
   entryTime being the timestamp read from the row; an instance that reaches a
   horizon early waits exactly the remaining time. *)
C10_NeverEarly ==
    \A i \in TaskIds :
        LET t == tasks[i]
            entryTime == t.datetime_str[2] * 10
        IN  /\ \A n \in 1..Len(t.samples) :
                  t.samples[n][2] >= entryTime + intervals[t.samples[n][1]][2] * 10
            /\ t.pc = "wait" =>
                  /\ t.sleptFrom < entryTime + intervals[t.idx][2] * 10
                  /\ t.wake - t.sleptFrom = entryTime + intervals[t.idx][2] * 10 - t.sleptFrom

C10_Witness ==
    \E i \in TaskIds :
        LET t == tasks[i] IN
        /\ Len(t.samples) >= 2
        /\ t.samples[2][2] = t.datetime_str[2] * 10 + intervals[2][2] * 10
        /\ t.pc = "wait"

(* C11: an instance whose row holds no timestamp (an empty cell), or a text that
   is not a "%Y-%m-%d %H:%M:%S" timestamp, never enters the loop over the
   horizons: it waits for none, fetches no price and writes nothing, and once it
   has ended the registry holds no entry referring to it. *)
C11_BadTimestampTerminates ==
    \A i \in TaskIds :
        LET t == tasks[i] IN
        ( /\ t.pc # "start"
          /\ t.outcome # "row_missing"
          /\ t.transient # "read"
          /\ t.datetime_str[1] \in {"none", "text"} ) =>
            /\ t.pc \in {"read_sleep", "done"}
            /\ t.idx = 0
            /\ t.samples = <<>>
            /\ t.writeIdx = 0
            /\ t.pc = "done" =>
                  /\ t.outcome \in {"critical", "cancelled"}
                  /\ update_tasks[t.symbol] # i

C11_Witness ==
    \E i \in TaskIds :
        /\ tasks[i].pc = "done"
        /\ tasks[i].outcome = "critical"
        /\ tasks[i].datetime_str = Empty
        /\ tasks[i].transient = "none"
        /\ external = "cleared"

(* C12: no coroutine holds up another: an instance whose timer has run out (its
   wait, pacing sleep or backoff is over) is never kept from resuming by another
   instance or a webhook handler that is in the middle of a price fetch or a
   pacing delay. *)
C12_NoBlocking ==
    \A i \in TaskIds :
        ( /\ tasks[i].pc \in SuspendedPcs
          /\ ~tasks[i].cancelReq
          /\ tasks[i].wake < now ) => ~Busy

(* C13: an instance that has read a valid entry timestamp and is not cancelled
   ends: it fetches the price of each of the 10 horizons once, in order, ends as
   completed, and from then on the registry holds no entry referring to it.
   (Liveness, under Fairness.) *)
C13_Terminates ==
    /\ \A i \in 1..MaxSignals :
          (i \in TaskIds /\ tasks[i].idx >= 1)
              ~> ( /\ i \in TaskIds
                   /\ \/ tasks[i].cancelReq
                      \/ /\ tasks[i].pc = "done"
                         /\ tasks[i].outcome = "completed"
                         /\ SampleIdx(tasks[i]) = [k \in 1..NumIntervals |-> k]
                         /\ update_tasks[tasks[i].symbol] # i )
    /\ [](\A i \in TaskIds : tasks[i].pc = "done" => update_tasks[tasks[i].symbol] # i)

C13_Witness ==
    \E i \in TaskIds :
        /\ ~tasks[i].cancelReq
        /\ tasks[i].outcome = "completed"
        /\ Len(tasks[i].samples) = NumIntervals
        /\ tasks[i].failed # {}
        /\ lifecycle = "running"

(* C14: for an entry price > 0 the recorded change is the fraction
   (sample - entry) / entry for a Long signal (action "buy" in any letter case)
   and (entry - sample) / entry for a Short one, to the nearest millionth and
   not multiplied by 100; so a sample above the entry price gives a positive
   change for Long and a negative one for Short. *)
C14_SignCorrect ==
    \A i \in TaskIds :
        LET t == tasks[i]
            e == t.entry_price.num
            s == t.current_price
            long == t.action \in {"buy", "BUY"}
            d == IF long THEN s - e ELSE e - s
        IN  (t.entry_price.den = 1 /\ e > 0) =>
                \A c \in cells :
                    (c[1] = t.row_index /\ c[2] = PctCol(t.idx)) =>
                        LET err == c[3].micro * e - d * 1000000 IN
                        /\ ~c[3].sat
                        /\ (s > e /\ long) => c[3].micro > 0
                        /\ (s > e /\ ~long) => c[3].micro < 0
                        /\ (s < e /\ long) => c[3].micro < 0
                        /\ (s < e /\ ~long) => c[3].micro > 0
                        /\ 2 * err <= e /\ -2 * err <= e

C14_Witness ==
    \E i \in TaskIds :
        /\ tasks[i].action = "sell"
        /\ tasks[i].current_price > tasks[i].entry_price.num
        /\ \E c \in cells : c[2] = PctCol(tasks[i].idx) /\ c[3].micro < 0

(* C15: an instance started with entry price 0 works with a non-zero entry
   price from before its first horizon: no horizon is skipped on account of
   the price, and every horizon whose fetch succeeded and whose writes were
   not given up has a defined change value in its pct cell. *)
C15_ZeroEntryPrice ==
    \A i \in TaskIds :
        LET t == tasks[i] IN
        t.given = 0 =>
            /\ t.entry_price.num # 0
            /\ t.entry_price.den # 0
            /\ \A h \in t.closed :
                  (FetchOk(t, h) /\ ~WriteFailed(t, h) /\ external = "none") =>
                      /\ \E r \in t.rets : r[1] = h /\ r[2] = "pct"
                      /\ \E c \in cells :
                            /\ c[1] = t.row_index
                            /\ c[2] = PctCol(h)
                            /\ c[3].micro # 0 \/ ~c[3].sat

C15_Witness ==
    \E i \in TaskIds :
        /\ tasks[i].given = 0
        /\ 2 \in tasks[i].closed
        /\ \A h \in 1..2 :
              \E c \in cells : c[1] = tasks[i].row_index /\ c[2] = PctCol(h) /\ c[3].sat

(* C16: for a Long signal with entry price 50000: a horizon whose fetch returns
   51000 records the change +0.02 on the positive-change background, one whose
   fetch returns 49000 records -0.02 on the negative-change background, and a
   horizon whose fetch fails leaves its two cells and its format untouched
   while the following horizon is still fetched.  Whatever the prices, the
   positive background is applied exactly when the recorded change is >= 0. *)
C16_LongScenario ==
    [](
        \A i \in TaskIds :
            LET t == tasks[i] IN
            (t.given = 50000 /\ t.action = "buy" /\ external = "none") =>
                /\ \A h \in t.failed :
                      FetchFailed(t, h) =>
                          /\ ~HasCell(cells, t.row_index, PriceCol(h))
                          /\ ~HasCell(cells, t.row_index, PctCol(h))
                          /\ ~HasCell(formats, t.row_index, PctCol(h))
                          /\ (h < NumIntervals /\ t.outcome = "completed") => Attempted(t, h + 1)
                /\ \A c \in cells :
                      c[1] = t.row_index =>
                          \* a change cell and its background
                          /\ <<c[1], c[2], "green">> \in formats => c[3].micro >= 0
                          /\ <<c[1], c[2], "red">> \in formats => c[3].micro < 0
                          \* a price cell and the change cell next to it
                          /\ ( /\ c[3].micro \in {49000, 50000, 51000}
                               /\ \E h \in 1..NumIntervals : c[2] = PriceCol(h) ) =>
                                \A q \in cells :
                                    (q[1] = c[1] /\ q[2] = c[2] + 1) =>
                                        /\ c[3].micro = 51000 => q[3].micro = 20000
                                        /\ c[3].micro = 49000 => q[3].micro = -20000
                                        /\ c[3].micro = 50000 => q[3].micro = 0
    )

C16_Witness ==
    \E i \in TaskIds :
        LET t == tasks[i] IN
        /\ t.given = 50000
        /\ FetchFailed(t, 2)
        /\ <<t.row_index, PriceCol(1), [sat |-> FALSE, micro |-> 51000]>> \in cells
        /\ <<t.row_index, PctCol(1), [sat |-> FALSE, micro |-> 20000]>> \in cells
        /\ <<t.row_index, PctCol(1), "green">> \in formats
        /\ <<t.row_index, PriceCol(3), [sat |-> FALSE, micro |-> 49000]>> \in cells
        /\ <<t.row_index, PctCol(3), [sat |-> FALSE, micro |-> -20000]>> \in cells
        /\ <<t.row_index, PctCol(3), "red">> \in formats

(* C17: one safe_cell_update makes at most 3 attempts; after the first failed
   attempt it sleeps 1 s and after the second 2 s; it returns True from the
   first attempt that succeeds and False, without raising, only when the third
   attempt has failed; every call returns exactly one result. *)
C17_BoundedRetry ==
    [](
        \A i \in TaskIds :
            LET t == tasks[i] IN
            /\ t.tries <= 3
            /\ t.pc = "backoff" =>
                  /\ t.tries \in {1, 2}
                  /\ t.tries = 1 => t.wake - t.backoffFrom = 10
                  /\ t.tries = 2 => t.wake - t.backoffFrom = 20
            /\ \A r \in t.rets :
                  /\ r[4] \in 1..3
                  /\ ~r[3] => r[4] = 3
                  /\ \A ok \in BOOLEAN, n \in 1..3 :
                        <<r[1], r[2], ok, n>> \in t.rets => (ok = r[3] /\ n = r[4])
            /\ (t.idx >= 1 /\ t.pc = "done") => t.outcome \in {"completed", "cancelled"}
            /\ \A h \in t.closed :
                  \/ \A c \in {"pct", "price"} :
                        \E ok \in BOOLEAN, n \in 1..3 : <<h, c, ok, n>> \in t.rets
                  \/ ~FetchOk(t, h)
    )

C17_Witness ==
    \E i \in TaskIds :
        /\ \E r \in tasks[i].rets : ~r[3] /\ r[4] = 3
        /\ \E r \in tasks[i].rets : r[3] /\ r[4] = 1
        /\ tasks[i].outcome = "completed"

(* C18: the horizon at position k (0-based) of the list writes its price only
   to column 8 + 2k and its change (value and format) only to column 9 + 2k of
   the row of its own instance.  So no two horizons share a cell (the column
   fixes the horizon and the kind of cell), every column
   written lies in 8..27, the columns of the header row, and an instance leaves
   column 7 of its row and every other row as they were. *)
C18_OwnColumns ==
    [](
        /\ \A i \in TaskIds :
              LET t == tasks[i] IN
              /\ \A w \in t.wrote :
                    /\ w[4] = t.row_index
                    /\ w[2] = "price" => w[5] = 8 + 2 * (w[1] - 1)
                    /\ w[2] = "pct" => w[5] = 9 + 2 * (w[1] - 1)
                    /\ w[2] \in {"price", "pct"}
                    /\ w[5] \in 8..NumColumns
              /\ (external = "none" /\ t.idx >= 1) => rows[t.row_index] = t.datetime_str
        /\ external = "none" =>
              /\ \A c \in cells :
                    \E i \in TaskIds :
                        \/ <<(c[2] - 8) \div 2 + 1, "price", "update", c[1], c[2]>> \in tasks[i].wrote
                        \/ <<(c[2] - 9) \div 2 + 1, "pct", "update", c[1], c[2]>> \in tasks[i].wrote
              /\ \A f \in formats :
                    \E i \in TaskIds :
                        <<(f[2] - 9) \div 2 + 1, "pct", "format", f[1], f[2]>> \in tasks[i].wrote
              /\ \A r \in 2..Len(rows) : rows[r][1] = "ts"
    )

C18_Witness ==
    \E i \in TaskIds :
        /\ \E w \in tasks[i].wrote : w[1] = NumIntervals /\ w[2] = "pct" /\ w[5] = NumColumns
        /\ \E w \in tasks[i].wrote : w[1] = 1 /\ w[2] = "price" /\ w[5] = 8
        /\ \E c \in cells : c[1] = tasks[i].row_index /\ c[2] = NumColumns

(* C19: an instance that ends removes from the registry only an entry that
   refers to itself: as long as the instance registered last for a symbol is
   running (and no cancellation of it is under way), the registry maps the
   symbol to it, whatever became of older instances of that symbol. *)
C19_PopOnlyOwnEntry ==
    \A j \in TaskIds :
        ( /\ Running(j)
          /\ ~tasks[j].cancelReq
          /\ \A k \in TaskIds : k > j => tasks[k].symbol # tasks[j].symbol )
            => update_tasks[tasks[j].symbol] = j

(* C20: with no other writer of the sheet, the row index a request hands to
   its task is the row that request's own append_row added: no other request
   appends between the append and the row count, so no two requests get the
   same row index and the calls of a task go to the row of its own signal
   only. *)
C20_OwnRow ==
    external = "none" =>
        \A h \in HandlerIds :
            /\ handlers[h].pc = "getall" => Len(rows) = handlers[h].appended
            /\ handlers[h].pc \in {"batchfmt", "done"} =>
                  /\ handlers[h].row_index = handlers[h].appended
                  /\ \A g \in HandlerIds :
                        g # h /\ handlers[g].row_index # 0
                            => handlers[g].row_index # handlers[h].row_index
            /\ handlers[h].task # 0 =>
                  /\ tasks[handlers[h].task].row_index = handlers[h].appended
                  /\ \A w \in tasks[handlers[h].task].wrote : w[4] = handlers[h].appended

\* Two requests were handled one after the other, their tasks have row 2 and
\* row 3, and each task has written into its row.
C20_Witness ==
    /\ external = "none"
    /\ \E h, g \in HandlerIds :
          /\ handlers[h].task # 0 /\ handlers[g].task # 0
          /\ handlers[h].appended = 2 /\ handlers[g].appended = 3
          /\ tasks[handlers[h].task].row_index = 2
          /\ tasks[handlers[g].task].row_index = 3
          /\ tasks[handlers[h].task].wrote # {}
          /\ tasks[handlers[g].task].wrote # {}
====
